---- MODULE Spec2Model ----
(***************************************************************************)
(* Greensteel: the auth service's session lifecycle                        *)
(* (src/service/auth-service/app/main.py) and the gateway's proxy engine   *)
(* (src/gateway/app/main.py, src/gateway/app/domain/discovery/model).      *)
(*                                                                         *)
(* Spec        the auth service: concurrent login / signup / logout /      *)
(*             verify handlers over the users and sessions tables.  A      *)
(*             handler is cut at its awaits on the database: opening the   *)
(*             connection and each statement are one step each, taken      *)
(*             together with the code that follows up to the next await.   *)
(*             A value that does not depend on the store (the random       *)
(*             session id, the clock reading) is drawn in the step of the  *)
(*             statement that carries it.                                  *)
(* GatewaySpec the gateway: routing of /api/v1/{service}/{path}.           *)
(***************************************************************************)
EXTENDS Integers, Sequences, FiniteSets, Bags, TLC

(***************************************************************************)
(* Bounds of the model.                                                    *)
(***************************************************************************)
\* request handlers of the auth service that can be in flight together
MaxReq == 2
\* requests the auth service admits in one behaviour
MaxOps == 3
\* the values create_session_id can return are 1..MaxSid
MaxSid == 2
\* the clock runs from 0 to MaxTime hours, TickHours at a time
MaxTime == 24

(***************************************************************************)
(* Program constants.                                                      *)
(***************************************************************************)
\* timedelta(hours=24), the lifetime login gives a session
SESSION_TTL_HOURS == 24
\* max_age=86400 of the session cookie, in seconds
COOKIE_MAX_AGE == 86400
\* the clock advances half a session lifetime at a time
TickHours == SESSION_TTL_HOURS \div 2

VARIABLES
    users,        \* table users: rows [id, email, password_hash, created_at]
    sessions,     \* table sessions: rows [id, user_id, email, created_at, expires_at]
    now,          \* the clock, in hours: get_current_time() and the store's NOW()
    dbUp,         \* whether the store answers (asyncpg.connect and the statements)
    req,          \* the handlers in flight: a bag of requests, each at its position
    out,          \* the request answered last, with its response
    ops,          \* requests admitted so far
    lastLogout    \* history: the id of the last logout answered with success,
                  \* NoSid again once a login has inserted a row since

\* The start of the auth service process.
VARIABLES
    tables,       \* whether the tables users and sessions exist in the store
    started       \* whether startup_event has returned: the service serves

authVars == <<users, sessions, now, dbUp, req, out, ops, lastLogout, tables, started>>

\* The gateway process.
VARIABLES
    env,          \* os.environ of the gateway: variable name -> value, or Unset
    gwReq,        \* proxied requests waiting for their backend: a bag
    gwOut         \* the gateway request answered last, with its response

gwVars == <<env, gwReq, gwOut>>

\* AuthMiddleware of the gateway.
VARIABLES
    mwOut         \* the request that passed the middleware last: the scope it
                  \* came with and the headers of the scope the app was called with

mwVars == <<mwOut>>

SessionIds == 1..MaxSid
NoSid == 0
\* request.cookies.get("session_id"): an id, or NoSid when no cookie is sent
CookieValues == SessionIds \cup {NoSid}
\* the bodies {email, password} sent to login and signup: a missing field, two
\* passwords for one email, a second email
Credentials ==
    {<<"", "pw1">>, <<"a@x", "">>, <<"a@x", "pw1">>, <<"a@x", "pw2">>, <<"b@x", "pw1">>}

(***************************************************************************)
(* Exceptions and the except clauses that translate them.                  *)
(***************************************************************************)
HTTPException(code) == [type |-> "HTTPException", status_code |-> code]
PostgresError == [type |-> "PostgresError", status_code |-> 0]
UniqueViolationError == [type |-> "UniqueViolationError", status_code |-> 0]

\* login, verify_session: "except Exception as db_error" around the store
\* block.  HTTPException is an Exception, so the 401 raised inside the block
\* is caught here as well.
DbExcept(e) == HTTPException(500)

\* signup: "except asyncpg.UniqueViolationError" and then "except Exception"
SignupDbExcept(e) ==
    IF e.type = "UniqueViolationError" THEN HTTPException(400) ELSE HTTPException(500)

\* the outer "except HTTPException: raise / except Exception: raise 500"
OuterExcept(e) ==
    IF e.type = "HTTPException" THEN e ELSE HTTPException(500)

(***************************************************************************)
(* Values of a response.                                                   *)
(***************************************************************************)
NoSetCookie ==
    [key |-> "", value |-> NoSid, max_age |-> -1, path |-> "",
     httponly |-> FALSE, secure |-> FALSE, samesite |-> ""]

\* response.set_cookie(key="session_id", value=session_id, httponly=True,
\*                     secure=True, samesite="lax", max_age=86400, path="/")
SessionCookie(sid) ==
    [key |-> "session_id", value |-> sid, max_age |-> COOKIE_MAX_AGE, path |-> "/",
     httponly |-> TRUE, secure |-> TRUE, samesite |-> "lax"]

\* response.delete_cookie(key="session_id", path="/"): an empty value, Max-Age=0
DeletedCookie ==
    [key |-> "session_id", value |-> NoSid, max_age |-> 0, path |-> "/",
     httponly |-> FALSE, secure |-> FALSE, samesite |-> "lax"]

NoData == [user_id |-> 0, email |-> "", session_id |-> NoSid, created_at |-> -1]

NoResp == [status |-> 0, body |-> "", set_cookie |-> NoSetCookie, data |-> NoData]

\* an HTTPException that leaves the handler: FastAPI answers with its status
\* and {"detail": ...}; headers set on the injected Response are dropped
ErrorResp(e) ==
    [status |-> e.status_code, body |-> "detail", set_cookie |-> NoSetCookie,
     data |-> NoData]

\* the row fetchrow returned to login: user['id'], user['email']
NoUser == [id |-> 0, email |-> ""]

\* a request whose handler has opened its connection.  follows is history:
\* the request carries a session id and arrived after a logout of that id
\* had been answered with success (and no login has created the id since).
\* peer is history: a login that arrived while another login with the same
\* email was in flight
NewReq(k, email, pw, c) ==
    [kind |-> k, pc |-> "select", email |-> email, password |-> pw, cookie |-> c,
     user |-> NoUser, follows |-> (c # NoSid /\ c = lastLogout),
     peer |-> (k = "login" /\ \E p \in BagToSet(req) : p.kind = "login" /\ p.email = email)]

\* an answered request: what was asked, the response, and whether the handler
\* left the connection it opened unclosed
Answered(k, email, c, response, connOpen) ==
    [kind |-> k, email |-> email, cookie |-> c, resp |-> response, conn |-> connOpen,
     peer |-> FALSE]

(***************************************************************************)
(* The store.                                                              *)
(***************************************************************************)
\* a statement raises: the store does not answer, or the table it names
\* does not exist (asyncpg.UndefinedTableError, a PostgresError)
StatementFails == ~dbUp \/ ~tables

\* str(hash(request.password)): the stored value is the hash, not the password
PasswordHash(pw) == <<"hash", pw>>

\* SELECT id, email FROM users WHERE email = $1 AND password_hash = $2
SelectUser(email, hash) ==
    {u \in users : u.email = email /\ u.password_hash = hash}

\* SELECT id FROM users WHERE email = $1
SelectByEmail(email) == {u \in users : u.email = email}

\* id SERIAL PRIMARY KEY: the next value of the sequence
NextUserId == Cardinality(users) + 1

\* mutant: the lifetime is dropped
SessionExpiry_NoTtl(t) == t

\* get_current_time() + timedelta(hours=24)
SessionExpiry(t) == t + SESSION_TTL_HOURS

\* mutant: the SELECT without its condition on expires_at
SelectValidSession_AnyAge(sid) ==
    {<<s, u>> \in sessions \X users : s.id = sid /\ s.user_id = u.id}

\* SELECT ... FROM sessions s JOIN users u ON s.user_id = u.id
\* WHERE s.id = $1 AND s.expires_at > NOW()
SelectValidSession(sid) ==
    {<<s, u>> \in sessions \X users :
        s.id = sid /\ s.user_id = u.id /\ s.expires_at > now}

SessionIdsStored == {s.id : s \in sessions}

\* the handler of request q returns (or raises)
Respond(q, response, connOpen) ==
    /\ req' = req (-) SetToBag({q})
    /\ out' = [Answered(q.kind, q.email, q.cookie, response, connOpen) EXCEPT !.peer = q.peer]

Raise(q, e, connOpen) == Respond(q, ErrorResp(OuterExcept(e)), connOpen)

\* a request is answered on arrival, before any await
Answer(k, email, c, response) ==
    /\ out' = Answered(k, email, c, response, FALSE)
    /\ UNCHANGED req

\* a handler starts waiting for its first statement
Enter(q) ==
    /\ BagCardinality(req) < MaxReq
    /\ req' = req (+) SetToBag({q})
    /\ UNCHANGED out

\* the handler of request q goes on to its next await
Goto(q, next) ==
    /\ req' = (req (-) SetToBag({q})) (+) SetToBag({next})
    /\ UNCHANGED out

Admit == started /\ ops < MaxOps /\ ops' = ops + 1

At(q, k, p) == BagIn(q, req) /\ q.kind = k /\ q.pc = p

(***************************************************************************)
(* POST /auth/login                                                        *)
(***************************************************************************)
\* the request arrives; the fields are checked and the connection is opened
StartLogin(email, pw) ==
    /\ Admit
    /\ IF email = "" \/ pw = ""
         THEN Answer("login", email, NoSid, ErrorResp(OuterExcept(HTTPException(400))))
         ELSE IF ~dbUp
           THEN Answer("login", email, NoSid,
                       ErrorResp(OuterExcept(DbExcept(PostgresError))))
           ELSE Enter(NewReq("login", email, pw, NoSid))
    /\ UNCHANGED <<users, sessions, now, dbUp, lastLogout>>
    /\ UNCHANGED <<gwVars, tables, started, mwVars>>

\* mutant: an email no user has is answered 404, a wrong password 401
LoginSelect_Reveals(q) ==
    /\ At(q, "login", "select")
    /\ LET found == SelectUser(q.email, PasswordHash(q.password)) IN
         IF StatementFails
           THEN Raise(q, DbExcept(PostgresError), TRUE)
           ELSE IF found = {}
             THEN IF SelectByEmail(q.email) = {}
                    THEN Raise(q, HTTPException(404), FALSE)
                    ELSE Raise(q, HTTPException(401), FALSE)
             ELSE \E u \in found :
                    Goto(q, [q EXCEPT !.pc = "insert",
                                           !.user = [id |-> u.id, email |-> u.email]])
    /\ UNCHANGED <<users, sessions, now, dbUp, ops, lastLogout>>
    /\ UNCHANGED <<gwVars, tables, started, mwVars>>

\* fetchrow on users; no row: the connection is closed and 401 is raised
\* inside the store block
LoginSelect(q) ==
    /\ At(q, "login", "select")
    /\ LET found == SelectUser(q.email, PasswordHash(q.password)) IN
         IF StatementFails
           THEN Raise(q, DbExcept(PostgresError), TRUE)
           ELSE IF found = {}
             THEN Raise(q, DbExcept(HTTPException(401)), FALSE)
             ELSE \E u \in found :
                    Goto(q, [q EXCEPT !.pc = "insert",
                                           !.user = [id |-> u.id, email |-> u.email]])
    /\ UNCHANGED <<users, sessions, now, dbUp, ops, lastLogout>>
    /\ UNCHANGED <<gwVars, tables, started, mwVars>>

\* mutant: the row is stored without the user's email
NewSession_NoEmail(sid, user, t) ==
    [id |-> sid, user_id |-> user.id, email |-> "",
     created_at |-> t, expires_at |-> t + SESSION_TTL_HOURS]

\* mutant: the row is stamped with the time it expires at
NewSession_StampedAtExpiry(sid, user, t) ==
    [id |-> sid, user_id |-> user.id, email |-> user.email,
     created_at |-> SessionExpiry(t), expires_at |-> SessionExpiry(t)]

\* the row login inserts: created_at is the column's DEFAULT CURRENT_TIMESTAMP
NewSession(sid, user, t) ==
    [id |-> sid, user_id |-> user.id, email |-> user.email,
     created_at |-> t, expires_at |-> SessionExpiry(t)]

\* LoginResponse(...) with the cookie set on the injected Response
LoginResponse(sid, user) ==
    [status |-> 200, body |-> "success", set_cookie |-> SessionCookie(sid),
     data |-> [user_id |-> user.id, email |-> user.email, session_id |-> sid,
               created_at |-> -1]]

\* mutant: sessions.id is not a key the store enforces; an id that is
\* already stored takes the place of the row that held it
LoginInsert_Overwrite(q) ==
    /\ At(q, "login", "insert")
    /\ \E sid \in SessionIds :
         IF StatementFails
           THEN /\ Raise(q, DbExcept(PostgresError), TRUE)
                /\ UNCHANGED <<sessions, lastLogout>>
           ELSE /\ sessions' = {s \in sessions : s.id # sid} \cup {NewSession(sid, q.user, now)}
                /\ Respond(q, LoginResponse(sid, q.user), FALSE)
                /\ lastLogout' = IF lastLogout = sid THEN NoSid ELSE lastLogout
    /\ UNCHANGED <<users, now, dbUp, ops>>
    /\ UNCHANGED <<gwVars, tables, started, mwVars>>

\* create_session_id, INSERT INTO sessions, close, set_cookie, return
LoginInsert(q) ==
    /\ At(q, "login", "insert")
    /\ \E sid \in SessionIds :
         IF StatementFails
           THEN /\ Raise(q, DbExcept(PostgresError), TRUE)
                /\ UNCHANGED <<sessions, lastLogout>>
           ELSE IF sid \in SessionIdsStored
             THEN /\ Raise(q, DbExcept(UniqueViolationError), TRUE)
                  /\ UNCHANGED <<sessions, lastLogout>>
             ELSE /\ sessions' = sessions \cup {NewSession(sid, q.user, now)}
                  /\ Respond(q, LoginResponse(sid, q.user), FALSE)
                  /\ lastLogout' = IF lastLogout = sid THEN NoSid ELSE lastLogout
    /\ UNCHANGED <<users, now, dbUp, ops>>
    /\ UNCHANGED <<gwVars, tables, started, mwVars>>

(***************************************************************************)
(* POST /auth/signup                                                       *)
(***************************************************************************)
StartSignup(email, pw) ==
    /\ Admit
    /\ IF email = "" \/ pw = ""
         THEN Answer("signup", email, NoSid, ErrorResp(OuterExcept(HTTPException(400))))
         ELSE IF ~dbUp
           THEN Answer("signup", email, NoSid,
                       ErrorResp(OuterExcept(SignupDbExcept(PostgresError))))
           ELSE Enter(NewReq("signup", email, pw, NoSid))
    /\ UNCHANGED <<users, sessions, now, dbUp, lastLogout>>
    /\ UNCHANGED <<gwVars, tables, started, mwVars>>

\* the existence check; a row: the connection is closed and 400 is raised
\* inside the store block
SignupSelect(q) ==
    /\ At(q, "signup", "select")
    /\ IF StatementFails
         THEN Raise(q, SignupDbExcept(PostgresError), TRUE)
         ELSE IF SelectByEmail(q.email) # {}
           THEN Raise(q, SignupDbExcept(HTTPException(400)), FALSE)
           ELSE Goto(q, [q EXCEPT !.pc = "insert"])
    /\ UNCHANGED <<users, sessions, now, dbUp, ops, lastLogout>>
    /\ UNCHANGED <<gwVars, tables, started, mwVars>>

\* the row signup inserts
NewUser(email, pw, t) ==
    [id |-> NextUserId, email |-> email, password_hash |-> PasswordHash(pw),
     created_at |-> t]

\* SignupResponse(...) built from the row INSERT ... RETURNING gave back
SignupResponse(u) ==
    [status |-> 200, body |-> "success", set_cookie |-> NoSetCookie,
     data |-> [user_id |-> u.id, email |-> u.email, session_id |-> NoSid,
               created_at |-> u.created_at]]

\* INSERT INTO users ... RETURNING; email is UNIQUE
SignupInsert(q) ==
    /\ At(q, "signup", "insert")
    /\ IF StatementFails
         THEN /\ Raise(q, SignupDbExcept(PostgresError), TRUE)
              /\ UNCHANGED users
         ELSE IF SelectByEmail(q.email) # {}
           THEN /\ Raise(q, SignupDbExcept(UniqueViolationError), TRUE)
                /\ UNCHANGED users
           ELSE LET u == NewUser(q.email, q.password, now) IN
                  /\ users' = users \cup {u}
                  /\ Respond(q, SignupResponse(u), FALSE)
    /\ UNCHANGED <<sessions, now, dbUp, ops, lastLogout>>
    /\ UNCHANGED <<gwVars, tables, started, mwVars>>

(***************************************************************************)
(* POST /auth/logout                                                       *)
(***************************************************************************)
\* {"status": "success", ...} with delete_cookie on the injected Response
LogoutResponse ==
    [status |-> 200, body |-> "success", set_cookie |-> DeletedCookie, data |-> NoData]

\* no cookie: nothing to delete; a failed connect is logged and swallowed
StartLogout(c) ==
    /\ Admit
    /\ IF c = NoSid \/ ~dbUp
         THEN /\ Answer("logout", "", c, LogoutResponse)
              /\ lastLogout' = c
         ELSE /\ Enter(NewReq("logout", "", "", c))
              /\ UNCHANGED lastLogout
    /\ UNCHANGED <<users, sessions, now, dbUp>>
    /\ UNCHANGED <<gwVars, tables, started, mwVars>>

\* the SELECT that only feeds the log
LogoutSelect(q) ==
    /\ At(q, "logout", "select")
    /\ IF StatementFails
         THEN /\ Respond(q, LogoutResponse, TRUE)
              /\ lastLogout' = q.cookie
         ELSE /\ Goto(q, [q EXCEPT !.pc = "delete"])
              /\ UNCHANGED lastLogout
    /\ UNCHANGED <<users, sessions, now, dbUp, ops>>
    /\ UNCHANGED <<gwVars, tables, started, mwVars>>

\* mutant: the DELETE takes every session of the user the id belongs to
DeleteSession_AllOfUser(sid) ==
    {s \in sessions : \A t \in sessions : t.id = sid => s.user_id # t.user_id}

\* DELETE FROM sessions WHERE id = $1
DeleteSession(sid) == {s \in sessions : s.id # sid}

\* mutant: logout ends the session in place: the row stays, expired
LogoutDelete_ExpireInPlace(q) ==
    /\ At(q, "logout", "delete")
    /\ IF StatementFails
         THEN /\ Respond(q, LogoutResponse, TRUE)
              /\ UNCHANGED sessions
         ELSE /\ sessions' = {IF s.id = q.cookie THEN [s EXCEPT !.expires_at = now] ELSE s :
                                 s \in sessions}
              /\ Respond(q, LogoutResponse, FALSE)
    /\ lastLogout' = q.cookie
    /\ UNCHANGED <<users, now, dbUp, ops>>
    /\ UNCHANGED <<gwVars, tables, started, mwVars>>

\* DELETE FROM sessions WHERE id = $1, close, delete_cookie, return
LogoutDelete(q) ==
    /\ At(q, "logout", "delete")
    /\ IF StatementFails
         THEN /\ Respond(q, LogoutResponse, TRUE)
              /\ UNCHANGED sessions
         ELSE /\ sessions' = DeleteSession(q.cookie)
              /\ Respond(q, LogoutResponse, FALSE)
    /\ lastLogout' = q.cookie
    /\ UNCHANGED <<users, now, dbUp, ops>>
    /\ UNCHANGED <<gwVars, tables, started, mwVars>>

(***************************************************************************)
(* GET /auth/verify                                                        *)
(***************************************************************************)
StartVerify(c) ==
    /\ Admit
    /\ IF c = NoSid
         THEN Answer("verify", "", c, ErrorResp(OuterExcept(HTTPException(401))))
         ELSE IF ~dbUp
           THEN Answer("verify", "", c,
                       ErrorResp(OuterExcept(DbExcept(PostgresError))))
           ELSE Enter(NewReq("verify", "", "", c))
    /\ UNCHANGED <<users, sessions, now, dbUp, lastLogout>>
    /\ UNCHANGED <<gwVars, tables, started, mwVars>>

VerifyResponse(s, u) ==
    [status |-> 200, body |-> "success", set_cookie |-> NoSetCookie,
     data |-> [user_id |-> s.user_id, email |-> u.email, session_id |-> NoSid,
               created_at |-> s.created_at]]

\* mutant: a sliding expiration, the verified session's expiry is renewed
VerifySelect_Sliding(q) ==
    /\ At(q, "verify", "select")
    /\ LET found == SelectValidSession(q.cookie) IN
         IF StatementFails
           THEN Raise(q, DbExcept(PostgresError), TRUE) /\ UNCHANGED sessions
           ELSE IF found = {}
             THEN Raise(q, DbExcept(HTTPException(401)), FALSE) /\ UNCHANGED sessions
             ELSE \E su \in found :
                    /\ Respond(q, VerifyResponse(su[1], su[2]), FALSE)
                    /\ sessions' = (sessions \ {su[1]}) \cup
                          {[su[1] EXCEPT !.expires_at = SessionExpiry(now)]}
    /\ UNCHANGED <<users, now, dbUp, ops, lastLogout>>
    /\ UNCHANGED <<gwVars, tables, started, mwVars>>

\* the joined SELECT, close; no row: 401 is raised inside the store block
VerifySelect(q) ==
    /\ At(q, "verify", "select")
    /\ LET found == SelectValidSession(q.cookie) IN
         IF StatementFails
           THEN Raise(q, DbExcept(PostgresError), TRUE)
           ELSE IF found = {}
             THEN Raise(q, DbExcept(HTTPException(401)), FALSE)
             ELSE \E su \in found : Respond(q, VerifyResponse(su[1], su[2]), FALSE)
    /\ UNCHANGED <<users, sessions, now, dbUp, ops, lastLogout>>
    /\ UNCHANGED <<gwVars, tables, started, mwVars>>

(***************************************************************************)
(* The environment of the auth service.                                    *)
(***************************************************************************)
Tick ==
    /\ now + TickHours <= MaxTime
    /\ now' = now + TickHours
    /\ UNCHANGED <<users, sessions, dbUp, req, out, ops, lastLogout>>
    /\ UNCHANGED <<gwVars, tables, started, mwVars>>

\* the store becomes unreachable, or reachable again
DbFlip ==
    /\ dbUp' = ~dbUp
    /\ UNCHANGED <<users, sessions, now, req, out, ops, lastLogout>>
    /\ UNCHANGED <<gwVars, tables, started, mwVars>>

\* startup_event: init_database connects and creates the tables that do not
\* exist; when that raises, the error is logged and startup returns all the
\* same.  The application serves from then on.
Startup ==
    /\ ~started
    /\ started' = TRUE
    /\ tables' = (tables \/ dbUp)
    /\ UNCHANGED <<users, sessions, now, dbUp, req, out, ops, lastLogout>>
    /\ UNCHANGED <<gwVars, mwVars>>

\* The store outlives the process (CREATE TABLE IF NOT EXISTS): the service
\* starts on empty tables, or on the row an earlier signup left at time 0.
StoredUsers ==
    {{}, {[id |-> 1, email |-> "a@x", password_hash |-> PasswordHash("pw1"),
           created_at |-> 0]}}

AuthInit ==
    /\ users \in StoredUsers
    /\ sessions = {}
    /\ now = 0
    /\ dbUp = TRUE
    /\ req = EmptyBag
    /\ out = Answered("idle", "", NoSid, NoResp, FALSE)
    /\ ops = 0
    /\ lastLogout = NoSid
    /\ tables = TRUE
    /\ started = TRUE

AuthNext ==
    \/ \E c \in Credentials : StartLogin(c[1], c[2])
    \/ \E q \in BagToSet(req) : LoginSelect(q)
    \/ \E q \in BagToSet(req) : LoginInsert(q)
    \/ \E c \in Credentials : StartSignup(c[1], c[2])
    \/ \E q \in BagToSet(req) : SignupSelect(q)
    \/ \E q \in BagToSet(req) : SignupInsert(q)
    \/ \E c \in CookieValues : StartLogout(c)
    \/ \E q \in BagToSet(req) : LogoutSelect(q)
    \/ \E q \in BagToSet(req) : LogoutDelete(q)
    \/ \E c \in CookieValues : StartVerify(c)
    \/ \E q \in BagToSet(req) : VerifySelect(q)
    \/ Tick
    \/ DbFlip

(***************************************************************************)
(* The gateway: POST /api/v1/{service}/{path}.                             *)
(*                                                                         *)
(* A URL is a sequence of pieces; "/" is a piece of its own, so that       *)
(* rstrip('/') and the f-strings that build the outbound URL are           *)
(* computed on it.  No other piece ends in a slash.                        *)
(***************************************************************************)
\* proxied requests that can wait for a backend together
MaxGwReq == 1

\* class ServiceType(str, Enum): the values
ServiceType == {"cbam", "chatbot", "lca", "report", "auth"}

\* the identifiers the specification enumerates for {service}
SpecServices == {"auth", "user", "cbam", "chatbot", "lca", "report"}

\* the {service} segments requests carry: the enumerated ones, one in the
\* wrong case and one unknown
Tokens == SpecServices \cup {"AUTH", "billing"}

\* the {path:path} segments requests carry
Paths == {<<"health">>, <<"login">>}

Unset == <<"unset">>

\* values given to a *_SERVICE_URL variable
Overrides ==
    {<<>>, <<"/">>, <<"http://h:1">>, <<"http://h:1", "/">>, <<"http://h:1", "/", "/">>}

EnvName(service) ==
    CASE service = "cbam" -> "CBAM_SERVICE_URL"
      [] service = "chatbot" -> "CHATBOT_SERVICE_URL"
      [] service = "lca" -> "LCA_SERVICE_URL"
      [] service = "report" -> "REPORT_SERVICE_URL"
      [] service = "auth" -> "AUTH_SERVICE_URL"

EnvNames == {EnvName(t) : t \in ServiceType}

\* the second argument of each os.getenv in ServiceDiscovery.__init__
DefaultUrl(service) ==
    CASE service = "cbam" -> <<"http://cbam-service:8082">>
      [] service = "chatbot" -> <<"http://chatbot-service:8083">>
      [] service = "lca" -> <<"http://lca-service:8084">>
      [] service = "report" -> <<"http://report-service:8085">>
      [] service = "auth" -> <<"http://auth-service:8081">>

\* os.getenv(name, default): the default only when the variable is not set
Getenv(name, default) == IF env[name] = Unset THEN default ELSE env[name]

\* url.rstrip('/')
RECURSIVE RStrip(_)
RStrip(url) ==
    IF url # <<>> /\ url[Len(url)] = "/" THEN RStrip(SubSeq(url, 1, Len(url) - 1)) ELSE url

\* ServiceDiscovery.__init__: self.base_urls, every non-empty URL stripped
BaseUrls ==
    [t \in ServiceType |->
        LET url == Getenv(EnvName(t), DefaultUrl(t)) IN
        IF url # <<>> THEN RStrip(url) ELSE url]

NoService == "<none>"

\* mutant: a segment that names no member falls back to the auth backend
ParseServiceType_Default(token) == IF token \in ServiceType THEN token ELSE "auth"

\* the path parameter "service: ServiceType": FastAPI converts the segment to
\* the member with that value; there is none for any other segment, and
\* FastAPI answers 422 itself without calling the handler
ParseServiceType(token) == IF token \in ServiceType THEN token ELSE NoService

\* httpx refuses a URL without scheme and host before it opens a connection
Sendable(url) == url # <<>> /\ url[1] # "/"

(***************************************************************************)
(* Origins and header values are sequences of pieces as well; a header     *)
(* list is a sequence of <<name, value>> pairs, so that a name can occur   *)
(* more than once and the order is kept.                                   *)
(***************************************************************************)
\* request.headers.get("origin") is None
NoOrigin == <<>>

\* the literal "https://www.minyoung.cloud" of proxy_post and auth_router
DEFAULT_ORIGIN == <<"https://", "www", ".minyoung.cloud">>

\* os.getenv("FRONTEND_ORIGIN", "https://www.minyoung.cloud"), the variable
\* not being set
FRONTEND_ORIGIN == <<"https://", "www", ".minyoung.cloud">>

ALLOWED_ORIGINS ==
    {<<"http://", "localhost", ":3000">>,
     <<"http://", "127.0.0.1", ":3000">>,
     <<"http://", "frontend", ":3000">>,
     <<"https://", "www", ".minyoung.cloud">>,
     <<"https://", "minyoung", ".cloud">>,
     <<"http://", "www", ".minyoung.cloud">>,
     <<"http://", "minyoung", ".cloud">>,
     <<"https://", "greensteel", ".vercel.app">>,
     FRONTEND_ORIGIN}

\* the pieces that are one run of [a-z0-9-]
LowerLabels ==
    {"localhost", "frontend", "www", "minyoung", "greensteel", "preview-1",
     "greensteel-gateway", "greensteel-frontend", "disallowed"}

\* re.match(r"^https:\/\/[a-z0-9-]+\.vercel\.app$", origin)
ALLOW_ORIGIN_REGEX(origin) ==
    /\ Len(origin) = 3
    /\ origin[1] = "https://"
    /\ origin[2] \in LowerLabels
    /\ origin[3] = ".vercel.app"

\* origin in ALLOWED_ORIGINS or re.match(ALLOW_ORIGIN_REGEX, origin)
IsAllowed(origin) == origin \in ALLOWED_ORIGINS \/ ALLOW_ORIGIN_REGEX(origin)

\* auth_router.get_allowed_origins(), FRONTEND_ORIGIN not being set
get_allowed_origins ==
    {<<"http://", "localhost", ":3000">>,
     <<"http://", "127.0.0.1", ":3000">>,
     <<"http://", "frontend", ":3000">>,
     <<"https://", "www", ".minyoung.cloud">>,
     <<"https://", "minyoung", ".cloud">>,
     <<"https://", "greensteel", ".vercel.app">>,
     <<"https://", "greensteel-gateway-production", ".up.railway.app">>,
     <<"https://", "greensteel-gateway-production-eeb5", ".up.railway.app">>,
     <<"https://", "greensteel-frontend", ".vercel.app">>,
     <<"https://", "greensteel-gateway", ".railway.app">>}

\* the Origin headers requests carry: in both lists, in the gateway's list
\* only, matching the regex only, in auth_router's list only, in none
Origins ==
    {<<"https://", "www", ".minyoung.cloud">>,
     <<"http://", "www", ".minyoung.cloud">>,
     <<"https://", "preview-1", ".vercel.app">>,
     <<"https://", "greensteel-gateway", ".railway.app">>,
     <<"https://", "disallowed", ".example">>}

\* str.lower() of a header name
Lower(name) ==
    CASE name = "Access-Control-Allow-Origin" -> "access-control-allow-origin"
      [] name = "Access-Control-Allow-Credentials" -> "access-control-allow-credentials"
      [] name = "Access-Control-Allow-Methods" -> "access-control-allow-methods"
      [] name = "Access-Control-Allow-Headers" -> "access-control-allow-headers"
      [] name = "Access-Control-Expose-Headers" -> "access-control-expose-headers"
      [] name = "Access-Control-Max-Age" -> "access-control-max-age"
      [] name = "Set-Cookie" -> "set-cookie"
      [] name = "Vary" -> "vary"
      [] name = "Host" -> "host"
      [] name = "HOST" -> "host"
      [] name = "Content-Length" -> "content-length"
      [] name = "CONTENT-LENGTH" -> "content-length"
      [] name = "Content-Type" -> "content-type"
      [] name = "Cookie" -> "cookie"
      [] name = "X-Trace" -> "x-trace"
      [] name = "Authorization" -> "authorization"
      [] name = "X-User-Id" -> "x-user-id"
      [] OTHER -> name

\* the values a header list holds for a name, in order
Values(headers, name) ==
    LET Named(e) == e[1] = name
        kept == SelectSeq(headers, Named)
    IN [i \in DOMAIN kept |-> kept[i][2]]

\* ", ".join(values)
RECURSIVE Join(_)
Join(values) ==
    IF values = <<>> THEN <<>>
    ELSE IF Len(values) = 1 THEN values[1]
    ELSE values[1] \o <<", ">> \o Join(Tail(values))

\* httpx.Headers.__getitem__: the values of the name joined with ", "
HttpxGet(headers, name) == Join(Values(headers, name))

\* dict(response.headers): one key per name, lower case as httpx keeps it,
\* in the order of first appearance, each with the joined value
HttpxDict(headers) ==
    LET First(i) == \A j \in 1..(i - 1) : headers[j][1] # headers[i][1]
        RECURSIVE Build(_)
        Build(i) ==
            IF i > Len(headers) THEN <<>>
            ELSE IF First(i)
              THEN <<<<headers[i][1], HttpxGet(headers, headers[i][1])>>>> \o Build(i + 1)
              ELSE Build(i + 1)
    IN Build(1)

\* d[key] = value on a dict: keys are compared as they are written
DictSet(d, key, value) ==
    IF \E i \in DOMAIN d : d[i][1] = key
      THEN [i \in DOMAIN d |-> IF d[i][1] = key THEN <<key, value>> ELSE d[i]]
      ELSE Append(d, <<key, value>>)

\* starlette Response(headers=d): raw_headers = [(k.lower(), v) for k, v in d.items()]
RawHeaders(d) == [i \in DOMAIN d |-> <<Lower(d[i][1]), d[i][2]>>]

\* starlette MutableHeaders.__setitem__: the first header of that name takes
\* the value and the others of that name are removed; appended when absent
MutableSet(headers, name, value) ==
    LET key == Lower(name)
        Hit(i) == headers[i][1] = key
        RECURSIVE Build(_, _)
        Build(i, seen) ==
            IF i > Len(headers) THEN <<>>
            ELSE IF Hit(i)
              THEN (IF seen THEN <<>> ELSE <<<<key, value>>>>) \o Build(i + 1, TRUE)
              ELSE <<headers[i]>> \o Build(i + 1, seen)
    IN IF \E i \in DOMAIN headers : Hit(i) THEN Build(1, FALSE)
       ELSE Append(headers, <<key, value>>)

\* the CORS headers the gateway's handlers set: main.py writes one list for
\* preflights and one for relayed auth responses, auth_router another
CorsDict(d, allowOrigin, methods, allowHeaders, expose) ==
    LET d1 == DictSet(d, "Access-Control-Allow-Origin", allowOrigin)
        d2 == DictSet(d1, "Access-Control-Allow-Credentials", <<"true">>)
        d3 == DictSet(d2, "Access-Control-Allow-Methods", <<methods>>)
        d4 == DictSet(d3, "Access-Control-Allow-Headers", <<allowHeaders>>)
        d5 == DictSet(d4, "Access-Control-Expose-Headers", <<expose>>)
    IN DictSet(d5, "Access-Control-Max-Age", <<"86400">>)

NoGwResp == [status |-> 0, body |-> "", headers |-> <<>>]

\* no outbound call was made
NoOutcome == [kind |-> "none", resp |-> NoGwResp]

\* an inbound request of the gateway.  site is the route it matches:
\* "proxy" is /api/v1/{service}/{path}, "root" is /, "auth_router" is
\* /auth/{path} of router/auth_router.py.  acrm: the request carries
\* Access-Control-Request-Method (and -Headers), as a browser's preflight does
\* what a request brings besides its Origin: the header lines as the client
\* wrote them, the body, and whether the body is a multipart form with a
\* part named file
NoInbound == [headers |-> <<>>, body |-> "", file |-> FALSE]

\* the arguments of the outbound client.request: None is "None"
NoSent == [headers |-> <<>>, content |-> "None", files |-> "None", cookies |-> <<>>]

GwRequest(method, site, token, path, origin, acrm) ==
    [method |-> method, site |-> site, token |-> token, path |-> path,
     origin |-> origin, acrm |-> acrm, inbound |-> NoInbound, sent |-> NoSent]

NoRequest == GwRequest("", "", "", <<>>, NoOrigin, FALSE)

\* an answered request: what was asked, the URLs requested for it, who built
\* the response (a handler, FastAPI's validation or CORSMiddleware), how the
\* outbound call ended, and the response
GwAnswered(rq, calls, by, o, mark, response) ==
    [token |-> rq.token, path |-> rq.path, calls |-> calls, resp |-> response,
     method |-> rq.method, site |-> rq.site, origin |-> rq.origin, acrm |-> rq.acrm,
     by |-> by, outcome |-> o.kind, backend |-> o.resp, mark |-> mark,
     inbound |-> rq.inbound, sent |-> rq.sent]

\* the headers as the ASGI server hands them over: names in lower case
AsgiHeaders(lines) == [i \in DOMAIN lines |-> <<Lower(lines[i][1]), lines[i][2]>>]

\* {k: v for k, v in request.headers.items() if ...}: items() gives every
\* line; a dict keeps one entry per name, at the place of the first line
\* of that name and with the value of the last
DictOfItems(headers) ==
    LET First(i) == \A j \in 1..(i - 1) : headers[j][1] # headers[i][1]
        Last(name) == LET vs == Values(headers, name) IN vs[Len(vs)]
        RECURSIVE Build(_)
        Build(i) ==
            IF i > Len(headers) THEN <<>>
            ELSE IF First(i)
              THEN <<<<headers[i][1], Last(headers[i][1])>>>> \o Build(i + 1)
              ELSE Build(i + 1)
    IN Build(1)

\* dict(request.headers): keys() gives every line and headers[key] the
\* value of the first line of that name
DictOfMapping(headers) ==
    LET First(i) == \A j \in 1..(i - 1) : headers[j][1] # headers[i][1]
        RECURSIVE Build(_)
        Build(i) ==
            IF i > Len(headers) THEN <<>>
            ELSE IF First(i) THEN <<headers[i]>> \o Build(i + 1) ELSE Build(i + 1)
    IN Build(1)

\* the entries of a dict whose key is not in skip
Without(d, skip) ==
    LET Kept(e) == e[1] \notin skip IN SelectSeq(d, Kept)

\* _forward_headers, had it dropped the Cookie header as well
forward_headers_DropsCookie(headers) ==
    Without(DictOfItems(headers), {"host", "content-length", "cookie"})

\* _forward_headers(request): skip = {"host", "content-length"}
_forward_headers(headers) == Without(DictOfItems(headers), {"host", "content-length"})

\* forward_request_to_auth_service: headers = dict(request.headers) and
\* del headers["host"]
AuthRouterHeaders(headers) == Without(DictOfMapping(headers), {"host"})

\* the (name, value) pairs a Cookie header value holds
cookie_parser(value) ==
    CASE value = "session_id=s1" -> <<<<"session_id", "s1">>>>
      [] value = "session_id=s1; theme=dark" -> <<<<"session_id", "s1">>, <<"theme", "dark">>>>
      [] OTHER -> <<>>

\* request.cookies: the pairs of the first Cookie header
RequestCookies(headers) ==
    LET vs == Values(headers, "cookie") IN IF vs = <<>> THEN <<>> ELSE cookie_parser(vs[1])

\* the cookies the backend receives with an outbound call: those of the
\* Cookie header among its headers; httpx adds a Cookie header from the
\* cookies argument only to a request that has none
CookiesReceived(sent) ==
    LET vs == Values(sent.headers, "cookie")
    IN  IF vs # <<>> THEN cookie_parser(vs[1]) ELSE sent.cookies

\* FILE_REQUIRED_SERVICES: set[ServiceType] = set()
FILE_REQUIRED_SERVICES == {}

\* proxy_post, the generic branch: files is set only for a service in
\* FILE_REQUIRED_SERVICES that is sent a file
Files(rq, service) ==
    IF service \in FILE_REQUIRED_SERVICES /\ rq.inbound.file THEN "file" ELSE "None"

\* the arguments the handler gives client.request for request rq
Outbound(rq, service) ==
    LET headers == AsgiHeaders(rq.inbound.headers) IN
    IF rq.site = "auth_router"
      THEN [headers |-> AuthRouterHeaders(headers), content |-> rq.inbound.body,
            files |-> "None", cookies |-> <<>>]
    ELSE IF service = "auth"
      THEN [headers |-> _forward_headers(headers), content |-> rq.inbound.body,
            files |-> "None", cookies |-> <<>>]
      ELSE [headers |-> _forward_headers(headers),
            content |-> IF Files(rq, service) = "None" THEN rq.inbound.body ELSE "None",
            files |-> Files(rq, service),
            cookies |-> RequestCookies(headers)]

\* a proxied request whose outbound call is under way; calls are the URLs
\* requested for it so far.  mark is history: it singles out one request
\* among those waiting
GwPending(rq, service, url, mark) ==
    [token |-> rq.token, service |-> service, path |-> rq.path, calls |-> <<url>>,
     method |-> rq.method, origin |-> rq.origin, site |-> rq.site, mark |-> mark,
     inbound |-> rq.inbound, sent |-> Outbound(rq, service)]

\* the request a waiting handler is serving
RequestOf(q) ==
    [GwRequest(q.method, q.site, q.token, q.path, q.origin, FALSE)
        EXCEPT !.inbound = q.inbound, !.sent = q.sent]

\* JSONResponse(content={"detail": ...}, status_code=code), and FastAPI's
\* answer to an HTTPException or to a path parameter it cannot convert
GwError(code) == [status |-> code, body |-> "detail", headers |-> <<>>]

\* proxy_post, the auth branch: the URL of the outbound request
AuthUrl(path) ==
    RStrip(Getenv("AUTH_SERVICE_URL", DefaultUrl("auth"))) \o <<"/", "auth", "/">> \o path

\* ServiceDiscovery.request: url = f"{base_url}/{path}"
ServiceUrl(service, path) == BaseUrls[service] \o <<"/">> \o path

\* auth_router: AUTH_SERVICE_URL as read at import, and auth_url
ForwardUrl(path) ==
    Getenv("AUTH_SERVICE_URL", DefaultUrl("auth")) \o <<"/", "auth", "/">> \o path

\* the handler answers without an outbound call
GwAnswer(rq, by, response) ==
    /\ gwOut' = GwAnswered(rq, <<>>, by, NoOutcome, FALSE, response)
    /\ UNCHANGED gwReq

\* the handler starts its outbound call and waits for it
GwSend(rq, service, url, mark) ==
    /\ BagCardinality(gwReq) < MaxGwReq
    /\ mark => \A p \in BagToSet(gwReq) : ~p.mark
    /\ gwReq' = gwReq (+) SetToBag({GwPending(rq, service, url, mark)})
    /\ UNCHANGED gwOut

\* proxy_post: the request is routed and validated, and the outbound call is
\* started or refused.  For a multipart body FastAPI has read the form to
\* fill the parameter file before the handler runs: await request.body()
\* then raises (the stream is consumed, "except Exception": 500) or gives
\* the bytes, as the installed Starlette has it
ProxyPost(rq, mark) ==
    /\ rq.method = "POST" /\ rq.site = "proxy"
    /\ LET service == ParseServiceType(rq.token) IN
         IF service = NoService
         THEN GwAnswer(rq, "fastapi", GwError(422))
         ELSE
           IF service = "auth"
             THEN IF Sendable(AuthUrl(rq.path))
               THEN GwSend(rq, service, AuthUrl(rq.path), mark)
               ELSE GwAnswer(rq, "proxy_post", GwError(500))
             ELSE IF BaseUrls[service] = <<>>
               THEN GwAnswer(rq, "proxy_post", GwError(500))
               ELSE IF rq.inbound.file
                 THEN \/ GwAnswer(rq, "proxy_post", GwError(500))
                      \/ GwSend(rq, service, ServiceUrl(service, rq.path), mark)
                 ELSE GwSend(rq, service, ServiceUrl(service, rq.path), mark)
    /\ UNCHANGED <<env, authVars, mwVars>>

\* POST /api/v1/{token}/{path} without an Origin header
GwPost(token, path) ==
    ProxyPost(GwRequest("POST", "proxy", token, path, NoOrigin, FALSE), FALSE)

\* auth_router: forward_request_to_auth_service up to the outbound request;
\* a URL httpx refuses is "except Exception": HTTPException(500)
AuthRouterPost(rq, mark) ==
    /\ rq.method = "POST" /\ rq.site = "auth_router"
    /\ IF Sendable(ForwardUrl(rq.path))
         THEN GwSend(rq, "auth", ForwardUrl(rq.path), mark)
         ELSE GwAnswer(rq, "forward_request_to_auth_service", GwError(500))
    /\ UNCHANGED <<env, authVars, mwVars>>

(***************************************************************************)
(* CORSMiddleware, the outermost layer of the app (app.add_middleware):    *)
(* an OPTIONS request with Origin and Access-Control-Request-Method is     *)
(* answered by it and reaches no route.                                    *)
(***************************************************************************)
IsPreflight(rq) == rq.method = "OPTIONS" /\ rq.origin # NoOrigin /\ rq.acrm

\* preflight_response: allow_origins=ALLOWED_ORIGINS, allow_origin_regex,
\* allow_credentials=True, allow_methods, allow_headers=["*"], max_age=86400;
\* the requested headers are allowed as they were asked
PreflightResponse(rq) ==
    LET h0 == <<<<"vary", <<"Origin">>>>,
                <<"access-control-allow-methods",
                  <<"GET, POST, PUT, DELETE, OPTIONS, PATCH">>>>,
                <<"access-control-max-age", <<"86400">>>>,
                <<"access-control-allow-credentials", <<"true">>>>>>
        h1 == IF IsAllowed(rq.origin)
                THEN Append(h0, <<"access-control-allow-origin", rq.origin>>)
                ELSE h0
        h2 == Append(h1, <<"access-control-allow-headers", <<"content-type">>>>)
    IN IF IsAllowed(rq.origin)
         THEN [status |-> 200, body |-> "OK", headers |-> h2]
         ELSE [status |-> 400, body |-> "Disallowed CORS origin", headers |-> h2]

\* simple_response: a response to a request with an Origin that is not a
\* preflight gets Access-Control-Allow-Credentials and -Expose-Headers, and
\* for an allowed origin Access-Control-Allow-Origin and Vary, each set
\* with MutableHeaders.__setitem__
SimpleResponse(origin, resp) ==
    LET h1 == MutableSet(resp.headers, "Access-Control-Allow-Credentials", <<"true">>)
        h2 == MutableSet(h1, "Access-Control-Expose-Headers",
                         <<"Set-Cookie, Content-Length, Content-Type">>)
        h3 == MutableSet(MutableSet(h2, "Access-Control-Allow-Origin", origin),
                         "Vary", <<"Origin">>)
    IN [resp EXCEPT !.headers = IF IsAllowed(origin) THEN h3 ELSE h2]

\* what the client receives for an answered request a: the response as
\* CORSMiddleware lets it out
Delivered(a) ==
    IF a.by = "CORSMiddleware" \/ a.origin = NoOrigin THEN a.resp
    ELSE SimpleResponse(a.origin, a.resp)

\* the six headers proxy_options and root_options answer with
PreflightHeaders(origin) ==
    RawHeaders(CorsDict(<<>>, origin, "GET, POST, PUT, DELETE, OPTIONS, PATCH",
                        "Content-Type, Authorization, X-Requested-With, Accept, Origin, Cache-Control",
                        "Set-Cookie, Content-Length, Content-Type"))

\* request.headers.get('Origin', FRONTEND_ORIGIN)
OriginOr(rq, default) == IF rq.origin = NoOrigin THEN default ELSE rq.origin

\* proxy_options: 403 for an origin that is not allowed
ProxyOptionsResponse(rq) ==
    LET origin == OriginOr(rq, FRONTEND_ORIGIN) IN
    IF ~IsAllowed(origin)
      THEN [status |-> 403, body |-> "CORS Origin not allowed", headers |-> <<>>]
      ELSE [status |-> 200, body |-> "", headers |-> PreflightHeaders(origin)]

\* mutant: the preflight is passed on to the service as a POST is
ProxyOptions_Forwarded(rq) ==
    /\ rq.method = "OPTIONS" /\ rq.site = "proxy"
    /\ LET service == ParseServiceType(rq.token) IN
         IF service = NoService \/ BaseUrls[service] = <<>>
           THEN GwAnswer(rq, "fastapi", GwError(422))
           ELSE GwSend(rq, service, ServiceUrl(service, rq.path), FALSE)
    /\ UNCHANGED <<env, authVars, mwVars>>

\* OPTIONS /api/v1/{service}/{path}
ProxyOptions(rq) ==
    /\ rq.method = "OPTIONS" /\ rq.site = "proxy"
    /\ IF IsPreflight(rq)
         THEN GwAnswer(rq, "CORSMiddleware", PreflightResponse(rq))
         ELSE IF ParseServiceType(rq.token) = NoService
           THEN GwAnswer(rq, "fastapi", GwError(422))
           ELSE GwAnswer(rq, "proxy_options", ProxyOptionsResponse(rq))
    /\ UNCHANGED <<env, authVars, mwVars>>

\* root_options: the Origin of the request is answered back as it came
RootOptionsResponse(rq) ==
    [status |-> 200, body |-> "",
     headers |-> PreflightHeaders(OriginOr(rq, FRONTEND_ORIGIN))]

\* OPTIONS /
RootOptions(rq) ==
    /\ rq.method = "OPTIONS" /\ rq.site = "root"
    /\ IF IsPreflight(rq)
         THEN GwAnswer(rq, "CORSMiddleware", PreflightResponse(rq))
         ELSE GwAnswer(rq, "root_options", RootOptionsResponse(rq))
    /\ UNCHANGED <<env, authVars, mwVars>>

\* auth_router's decision: origin and origin in allowed_origins, else the
\* default origin
AuthRouterAllowOrigin(origin) ==
    IF origin # NoOrigin /\ origin \in get_allowed_origins THEN origin ELSE DEFAULT_ORIGIN

\* auth_proxy_options
AuthProxyOptionsResponse(rq) ==
    [status |-> 200, body |-> "",
     headers |-> RawHeaders(CorsDict(<<>>, AuthRouterAllowOrigin(rq.origin),
                                     "GET, POST, PUT, DELETE, OPTIONS", "*", "*"))]

\* OPTIONS /auth/{signup, login, logout, verify}
AuthRouterOptions(rq) ==
    /\ rq.method = "OPTIONS" /\ rq.site = "auth_router"
    /\ IF IsPreflight(rq)
         THEN GwAnswer(rq, "CORSMiddleware", PreflightResponse(rq))
         ELSE GwAnswer(rq, "auth_proxy_options", AuthProxyOptionsResponse(rq))
    /\ UNCHANGED <<env, authVars, mwVars>>

(***************************************************************************)
(* The outbound call ends.                                                 *)
(***************************************************************************)
\* statuses and bodies a backend answers with, without headers of interest
BackendResponses ==
    {[status |-> st, body |-> b, headers |-> <<>>] : st \in {200, 401, 500}, b \in {"json"}}

\* Set-Cookie values and CORS headers a backend answers with
BackendHeaders ==
    {<<<<"set-cookie", <<"session_id=s1; HttpOnly; Secure; SameSite=lax; Path=/">>>>>>,
     <<<<"set-cookie", <<"session_id=s1; HttpOnly; Secure; SameSite=lax; Path=/">>>>,
       <<"set-cookie", <<"theme=dark; Path=/">>>>>>,
     <<<<"access-control-allow-origin", <<"*">>>>,
       <<"access-control-allow-credentials", <<"false">>>>,
       <<"set-cookie", <<"theme=dark; Path=/">>>>>>}

HeaderResponses == {[status |-> 200, body |-> "json", headers |-> h] : h \in BackendHeaders}

\* a backend response without a body, and one whose body is compressed:
\* body is what is on the wire
BodyResponses ==
    {[status |-> 204, body |-> "", headers |-> <<>>],
     [status |-> 200, body |-> "gzip(json)",
      headers |-> <<<<"content-encoding", <<"gzip">>>>>>]}

\* httpx Response.content: the body, decoded as Content-Encoding says
HttpxContent(resp) ==
    IF Values(resp.headers, "content-encoding") = <<<<"gzip">>>> /\ resp.body = "gzip(json)"
      THEN "json"
      ELSE resp.body

Failures == {"ConnectError", "TimeoutException", "Exception"}

\* how the outbound call ends
Outcomes ==
    {[kind |-> "response", resp |-> b] : b \in BackendResponses}
      \cup {[kind |-> k, resp |-> NoGwResp] : k \in Failures}

\* the same, with the backend responses that carry headers
RelayOutcomes ==
    {[kind |-> "response", resp |-> b] :
        b \in {r \in BackendResponses : r.status # 500} \cup HeaderResponses
                 \cup BodyResponses}
      \cup {[kind |-> k, resp |-> NoGwResp] : k \in Failures}

\* proxy_post, the auth branch: the origin it answers with
AuthAllowOrigin(origin) ==
    IF origin # NoOrigin /\ IsAllowed(origin) THEN origin ELSE DEFAULT_ORIGIN

\* proxy_post, the auth branch: Response(content, status_code,
\* headers=response_headers) built on dict(response.headers)
AuthRelayed(q, resp) ==
    [status |-> resp.status, body |-> HttpxContent(resp),
     headers |-> RawHeaders(CorsDict(HttpxDict(resp.headers), AuthAllowOrigin(q.origin),
                                     "GET, POST, PUT, DELETE, OPTIONS",
                                     "Content-Type, Authorization, X-Requested-With",
                                     "Set-Cookie"))]

\* proxy_post, the auth branch: the response built from the outcome
AuthRelay(q, o) ==
    CASE o.kind = "response" -> AuthRelayed(q, o.resp)
      [] o.kind = "ConnectError" -> GwError(503)
      [] o.kind = "TimeoutException" -> GwError(504)
      [] OTHER -> GwError(500)

\* ResponseFactory.create_response(resp): status, headers and body copied
CreateResponse(resp) == [status |-> resp.status, body |-> resp.body, headers |-> resp.headers]

\* proxy_post, the generic branch: out.headers["set-cookie"] =
\* resp.headers["set-cookie"] when the backend set a cookie
ServiceRelayed(resp) ==
    LET created == CreateResponse(resp) IN
    IF Values(resp.headers, "set-cookie") # <<>>
      THEN [created EXCEPT !.headers =
               MutableSet(created.headers, "set-cookie", HttpxGet(resp.headers, "set-cookie"))]
      ELSE created

\* mutant: the exception ServiceDiscovery.request re-raises leaves proxy_post
\* and the server answers its plain "Internal Server Error"
ServiceRelay_Escapes(o) ==
    IF o.kind = "response" THEN ServiceRelayed(o.resp)
    ELSE [status |-> 500, body |-> "Internal Server Error", headers |-> <<>>]

\* proxy_post, the generic branch: ServiceDiscovery.request re-raises, and
\* "except Exception" of proxy_post answers 500
ServiceRelay(o) ==
    IF o.kind = "response" THEN ServiceRelayed(o.resp) ELSE GwError(500)

\* forward_request_to_auth_service: the response, or the HTTPException its
\* except clauses raise
ForwardRelay(q, o) ==
    CASE o.kind = "response" ->
           [status |-> o.resp.status, body |-> HttpxContent(o.resp),
            headers |-> RawHeaders(CorsDict(HttpxDict(o.resp.headers),
                                            AuthRouterAllowOrigin(q.origin),
                                            "GET, POST, PUT, DELETE, OPTIONS", "*", "*"))]
      [] o.kind = "TimeoutException" -> GwError(504)
      [] o.kind = "ConnectError" -> GwError(503)
      [] OTHER -> GwError(500)

\* the handler that serves a waiting request
HandlerOf(q) ==
    IF q.site = "auth_router" THEN "forward_request_to_auth_service" ELSE "proxy_post"

\* the response the handler of q builds when its outbound call ends with o
Relay(q, o) ==
    IF q.site = "auth_router" THEN ForwardRelay(q, o)
    ELSE IF q.service = "auth" THEN AuthRelay(q, o) ELSE ServiceRelay(o)

\* mutant: a call that failed is tried once more before the gateway answers
GwBackend_Retry(q, o) ==
    /\ BagIn(q, gwReq)
    /\ IF o.kind # "response" /\ Len(q.calls) < 2
         THEN /\ gwReq' = (gwReq (-) SetToBag({q}))
                             (+) SetToBag({[q EXCEPT !.calls = Append(q.calls, q.calls[1])]})
              /\ UNCHANGED gwOut
         ELSE /\ gwReq' = gwReq (-) SetToBag({q})
              /\ gwOut' = GwAnswered(RequestOf(q), q.calls, HandlerOf(q), o, q.mark,
                                     Relay(q, o))
    /\ UNCHANGED <<env, authVars, mwVars>>

\* the outbound call of request q ends and the gateway answers
GwBackend(q, o) ==
    /\ BagIn(q, gwReq)
    /\ gwReq' = gwReq (-) SetToBag({q})
    /\ gwOut' = GwAnswered(RequestOf(q), q.calls, HandlerOf(q), o, q.mark, Relay(q, o))
    /\ UNCHANGED <<env, authVars, mwVars>>

(***************************************************************************)
(* AuthMiddleware.  A header value is here a sequence of the pieces between *)
(* its spaces; a path is a sequence of pieces, cut where an exempt path     *)
(* would end.  A token is named by what it is.                              *)
(***************************************************************************)
\* no request has passed the middleware
NoMwOut == [scope |-> [type |-> "", path |-> <<>>, headers |-> <<>>], headers |-> <<>>]

\* _is_exempt_path: path.startswith(exempt_path) for any of exempt_paths
_is_exempt_path(path) ==
    /\ path # <<>>
    /\ path[1] \in {"/docs", "/redoc", "/openapi.json", "/api/v1/auth/login",
                    "/api/v1/auth/verify"}

\* payload.get("user_id") of a token, with its type, and str() of it
NoUserId == [type |-> "NoneType", str |-> "None"]

\* jwt.decode(token, self.secret_key, algorithms=["HS256"]): the exception
\* it raises, or the user_id of the payload
jwt_decode(token) ==
    CASE token = "jwt:int7" -> [raises |-> "", user_id |-> [type |-> "int", str |-> "7"]]
      [] token = "jwt:u1" -> [raises |-> "", user_id |-> [type |-> "str", str |-> "u1"]]
      [] token = "jwt:int0" -> [raises |-> "", user_id |-> [type |-> "int", str |-> "0"]]
      [] token = "jwt:nouser" -> [raises |-> "", user_id |-> NoUserId]
      [] token = "jwt:expired" -> [raises |-> "ExpiredSignatureError", user_id |-> NoUserId]
      [] token = "jwt:otherkey" -> [raises |-> "InvalidSignatureError", user_id |-> NoUserId]
      [] OTHER -> [raises |-> "DecodeError", user_id |-> NoUserId]

\* bool(user_id)
Truthy(user_id) ==
    /\ user_id.type # "NoneType"
    /\ ~(user_id.type = "int" /\ user_id.str = "0")
    /\ ~(user_id.type = "str" /\ user_id.str = "")

\* _verify_token: the user_id of the Bearer token, or None
_verify_token(headers) ==
    LET vs == Values(headers, "authorization")
        auth_header == IF vs = <<>> THEN <<>> ELSE vs[1]
    IN  IF Len(auth_header) < 2 \/ auth_header[1] # "Bearer"
          THEN NoUserId
          ELSE LET decoded == jwt_decode(auth_header[2]) IN
               IF decoded.raises # "" \/ ~Truthy(decoded.user_id)
                 THEN NoUserId
                 ELSE decoded.user_id

\* AuthMiddleware.__call__: the scope the app is called with
AuthMiddlewareCall(scope) ==
    /\ LET headers == AsgiHeaders(scope.headers)
           user_id == _verify_token(headers)
       IN  mwOut' =
             [scope |-> scope,
              headers |->
                 IF scope.type = "http" /\ ~_is_exempt_path(scope.path) /\ Truthy(user_id)
                   THEN <<<<"x-user-id", <<user_id.str>>>>>>
                   ELSE headers]
    /\ UNCHANGED <<authVars, gwVars>>

\* the Authorization headers requests come with: none, Bearer with each
\* token, another scheme, the scheme in lower case
AuthorizationLines ==
    {<<>>, <<<<"Authorization", <<"Basic", "dXNlcg==">>>>>>,
     <<<<"Authorization", <<"bearer", "jwt:int7">>>>>>}
      \cup {<<<<"Authorization", <<"Bearer", t>>>>>> :
                t \in {"jwt:int7", "jwt:u1", "jwt:int0", "jwt:nouser", "jwt:expired",
                       "jwt:otherkey", "junk"}}

\* the scopes the middleware is called with: a Cookie header, an
\* Authorization header or none, and an X-User-Id of the client's or none
MwScopes ==
    {[type |-> ty, path |-> p,
      headers |-> <<<<"Cookie", <<"session_id=s1">>>>>> \o a \o x] :
        ty \in {"http", "websocket"},
        p \in {<<"/api/v1/auth/login">>, <<"/docs", "/oauth2-redirect">>,
               <<"/api/v1/cbam/calc">>, <<"/api/v1/auth/logout">>},
        a \in AuthorizationLines,
        x \in {<<>>, <<<<"X-User-Id", <<"admin">>>>>>}}

\* the environment the gateway process starts in: at most one of the
\* *_SERVICE_URL variables is set
GwEnvs ==
    {[n \in EnvNames |-> Unset]}
      \cup {[n \in EnvNames |-> IF n = m THEN o ELSE Unset] : m \in EnvNames, o \in Overrides}

GwInit ==
    /\ env \in GwEnvs
    /\ gwReq = EmptyBag
    /\ gwOut = GwAnswered(NoRequest, <<>>, "", NoOutcome, FALSE, NoGwResp)
    /\ mwOut = NoMwOut

\* the gateway at rest, in the default environment
GwIdle ==
    /\ env = [n \in EnvNames |-> Unset]
    /\ gwReq = EmptyBag
    /\ gwOut = GwAnswered(NoRequest, <<>>, "", NoOutcome, FALSE, NoGwResp)
    /\ mwOut = NoMwOut

\* the auth service at rest
AuthIdle ==
    /\ users = {}
    /\ sessions = {}
    /\ now = 0
    /\ dbUp = TRUE
    /\ req = EmptyBag
    /\ out = Answered("idle", "", NoSid, NoResp, FALSE)
    /\ ops = 0
    /\ lastLogout = NoSid
    /\ tables = TRUE
    /\ started = TRUE

GwNext ==
    \/ \E t \in Tokens, p \in Paths : GwPost(t, p)
    \/ \E q \in BagToSet(gwReq), o \in Outcomes : GwBackend(q, o)

\* the requests that carry an Origin: proxied logins, logins through
\* auth_router, and OPTIONS requests to the three routes
OriginValues == Origins \cup {NoOrigin}

ProxyPosts ==
    {GwRequest("POST", "proxy", "auth", <<"login">>, o, FALSE) : o \in OriginValues}
      \cup {GwRequest("POST", "proxy", "cbam", <<"login">>, NoOrigin, FALSE)}

AuthRouterPosts ==
    {GwRequest("POST", "auth_router", "auth", <<"login">>, o, FALSE) : o \in OriginValues}

ProxyOptionsRequests ==
    {GwRequest("OPTIONS", "proxy", t, <<"login">>, o, a) :
        t \in {"cbam", "user"}, o \in OriginValues, a \in BOOLEAN}

RootOptionsRequests ==
    {GwRequest("OPTIONS", "root", "", <<>>, o, a) : o \in OriginValues, a \in BOOLEAN}

AuthRouterOptionsRequests ==
    {GwRequest("OPTIONS", "auth_router", "auth", <<"login">>, o, a) :
        o \in OriginValues, a \in BOOLEAN}

RelayNext ==
    \/ \E rq \in ProxyPosts, m \in BOOLEAN : ProxyPost(rq, m)
    \/ \E rq \in AuthRouterPosts, m \in BOOLEAN : AuthRouterPost(rq, m)
    \/ \E rq \in ProxyOptionsRequests : ProxyOptions(rq)
    \/ \E rq \in RootOptionsRequests : RootOptions(rq)
    \/ \E rq \in AuthRouterOptionsRequests : AuthRouterOptions(rq)
    \/ \E q \in BagToSet(gwReq), o \in RelayOutcomes : GwBackend(q, o)

vars == <<authVars, gwVars, mwVars>>

Init == AuthInit /\ GwIdle

Next == AuthNext

Spec == Init /\ [][Next]_vars

GatewayInit == GwInit /\ AuthIdle

GatewayNext == GwNext

GatewaySpec == GatewayInit /\ [][GatewayNext]_vars

\* the gateway in the default environment, with requests that carry Origin
\* headers and backends that answer with headers
RelayInit == GwIdle /\ AuthIdle

RelaySpec == RelayInit /\ [][RelayNext]_vars

\* client.request(..., timeout=30.0) raises httpx.TimeoutException
TimedOut == [kind |-> "TimeoutException", resp |-> NoGwResp]

\* an outbound call that does not end otherwise ends by its timeout
RelayFairness ==
    WF_vars(\E q \in BagToSet(gwReq) : q.mark /\ GwBackend(q, TimedOut))

\* the POST requests alone: through proxy_post to auth and to cbam, and
\* through auth_router
LivePosts ==
    {rq \in ProxyPosts \cup AuthRouterPosts :
        rq.origin \in {NoOrigin, <<"https://", "disallowed", ".example">>}}

LiveNext ==
    \/ \E rq \in LivePosts, m \in BOOLEAN : ProxyPost(rq, m)
    \/ \E rq \in LivePosts, m \in BOOLEAN : AuthRouterPost(rq, m)
    \/ \E q \in BagToSet(gwReq), o \in RelayOutcomes : GwBackend(q, o)

RelayFairSpec == RelayInit /\ [][LiveNext]_vars /\ RelayFairness

\* requests passing AuthMiddleware
MiddlewareNext == \E scope \in MwScopes : AuthMiddlewareCall(scope)

MiddlewareSpec == RelayInit /\ [][MiddlewareNext]_vars

\* the gateway under every environment, requests reaching the auth backend
\* through proxy_post and through the auth router
UrlNext ==
    \/ \E t \in Tokens, p \in Paths : GwPost(t, p)
    \/ \E p \in Paths :
          AuthRouterPost(GwRequest("POST", "auth_router", "auth", p, NoOrigin, FALSE), FALSE)
    \/ \E q \in BagToSet(gwReq), o \in Outcomes : GwBackend(q, o)

UrlSpec == GatewayInit /\ [][UrlNext]_vars

\* header lines requests carry: Host and Content-Length in two spellings, a
\* Cookie, and a header sent on two lines
InboundHeaders ==
    {<<<<"Host", "gw">>, <<"Content-Length", "4">>, <<"Content-Type", "application/json">>,
       <<"Cookie", "session_id=s1">>>>,
     <<<<"HOST", "gw">>, <<"CONTENT-LENGTH", "4">>, <<"Cookie", "session_id=s1; theme=dark">>>>,
     <<<<"Host", "gw">>, <<"X-Trace", "a">>, <<"X-Trace", "b">>>>}

\* what requests bring: a body or none, and for the generic branch a
\* multipart body with a file
Inbounds ==
    {[headers |-> h, body |-> b, file |-> FALSE] : h \in InboundHeaders, b \in {"", "json"}}

ForwardPosts ==
    {[GwRequest("POST", "proxy", t, <<"login">>, NoOrigin, FALSE) EXCEPT !.inbound = i] :
        t \in {"auth", "cbam"}, i \in Inbounds}
      \cup {[GwRequest("POST", "proxy", "cbam", <<"upload">>, NoOrigin, FALSE)
                EXCEPT !.inbound =
                    [headers |-> <<<<"Host", "gw">>,
                                   <<"Content-Type", "multipart/form-data">>>>,
                     body |-> "form", file |-> TRUE]]}

ForwardOutcomes ==
    {[kind |-> "response", resp |-> [status |-> 200, body |-> "json", headers |-> <<>>]],
     [kind |-> "ConnectError", resp |-> NoGwResp]}

\* the gateway forwarding requests that carry headers, cookies and bodies
ForwardNext ==
    \/ \E rq \in ForwardPosts : ProxyPost(rq, FALSE)
    \/ \E i \in Inbounds :
          AuthRouterPost([GwRequest("POST", "auth_router", "auth", <<"login">>, NoOrigin, FALSE)
                            EXCEPT !.inbound = i], FALSE)
    \/ \E q \in BagToSet(gwReq), o \in ForwardOutcomes : GwBackend(q, o)

ForwardSpec == RelayInit /\ [][ForwardNext]_vars

\* the auth service from the start of its process: the store reachable or
\* not, holding the tables of an earlier run or none
StartupInit ==
    /\ users = {}
    /\ sessions = {}
    /\ now = 0
    /\ dbUp \in BOOLEAN
    /\ req = EmptyBag
    /\ out = Answered("idle", "", NoSid, NoResp, FALSE)
    /\ ops = 0
    /\ lastLogout = NoSid
    /\ tables \in BOOLEAN
    /\ started = FALSE
    /\ GwIdle

\* the requests sent to the service once it has started
StartupNext ==
    \/ Startup
    \/ DbFlip
    \/ StartSignup("a@x", "pw1")
    \/ \E q \in BagToSet(req) : SignupSelect(q)
    \/ \E q \in BagToSet(req) : SignupInsert(q)
    \/ \E pw \in {"pw1", "pw2"} : StartLogin("a@x", pw)
    \/ \E q \in BagToSet(req) : LoginSelect(q)
    \/ \E q \in BagToSet(req) : LoginInsert(q)
    \/ \E c \in CookieValues : StartVerify(c)
    \/ \E q \in BagToSet(req) : VerifySelect(q)

StartupSpec == StartupInit /\ [][StartupNext]_vars

(***************************************************************************)
(* Vocabulary of the claims.                                               *)
(***************************************************************************)
\* requests answered so far: those admitted that are no longer in flight
NAnswered == ops - BagCardinality(req)

\* this step answers a request of kind k: out' is that request and its response
Responds(k) == NAnswered' = NAnswered + 1 /\ out'.kind = k

\* this step is the last step of the handler of the request q in flight
Returns(q) == NAnswered' = NAnswered + 1 /\ req' = req (-) SetToBag({q})

\* this step admits a request of kind k that stays in flight
Enters(k) ==
    \E q \in BagToSet(req') :
        q.kind = k /\ CopiesIn(q, req') = CopiesIn(q, req) + 1

\* session sid is ACTIVE: stored and not yet expired
Active(sid) == \E s \in sessions : s.id = sid /\ s.expires_at > now

Registered(email) == \E u \in users : u.email = email

(***************************************************************************)
(* C1: GET /auth/verify with a session_id cookie whose id is not in the    *)
(* sessions table, or whose row has expires_at <= now, answers 401 and     *)
(* nothing else.  Stated for the steps in which the store answers.         *)
(* The code answers 500: the 401 is raised inside the store block and      *)
(* caught by its "except Exception".                                       *)
(***************************************************************************)
C1_InvalidSessionAnswers401 ==
    [][(Responds("verify") /\ dbUp /\ out'.cookie # NoSid /\ ~Active(out'.cookie))
          => out'.resp.status = 401]_vars

(***************************************************************************)
(* C2: POST /auth/login with an email/password pair that matches no stored *)
(* credential answers 401, sets no session_id cookie and leaves the        *)
(* sessions table unchanged.  Stated for the steps in which the store      *)
(* answers.  The code answers 500 (no cookie, sessions unchanged).         *)
(***************************************************************************)
C2_BadCredentialsAnswer401 ==
    [][\A q \in BagToSet(req) :
          (q.kind = "login" /\ Returns(q) /\ dbUp
             /\ SelectUser(q.email, PasswordHash(q.password)) = {})
          => /\ out'.resp.status = 401
             /\ out'.resp.set_cookie = NoSetCookie
             /\ sessions' = sessions]_vars

(***************************************************************************)
(* C3: POST /auth/signup for an email already registered answers 400 and   *)
(* leaves the users table unchanged; for an unregistered email it creates  *)
(* exactly one row and returns its id, email and created_at.  Stated for   *)
(* the steps in which the store answers.  The code answers 500 when its    *)
(* own existence check finds the email.                                    *)
(***************************************************************************)
C3_DuplicateSignupAnswers400 ==
    [][\A q \in BagToSet(req) :
          (q.kind = "signup" /\ Returns(q) /\ dbUp)
          => IF Registered(q.email)
               THEN out'.resp.status = 400 /\ users' = users
               ELSE \E u \in users' :
                      /\ users' = users \cup {u} /\ u \notin users
                      /\ u.email = q.email
                      /\ out'.resp.status = 200
                      /\ out'.resp.data.user_id = u.id
                      /\ out'.resp.data.email = u.email
                      /\ out'.resp.data.created_at = u.created_at]_vars

(***************************************************************************)
(* C4: after any interleaving of signups the users table holds at most one *)
(* row per email, and of the requests for one email exactly one succeeds   *)
(* while every other one is answered 400.  Stated as: the table never      *)
(* holds two rows of one email, a signup that succeeds is the one that     *)
(* registered its email, and every other signup for a registered email     *)
(* that the store answered is answered 400.  The table part holds; a       *)
(* signup that arrives after the row exists is answered 500 (see C3).      *)
(***************************************************************************)
C4_OneSignupPerEmail ==
    [][/\ \A u1, u2 \in users' : u1.email = u2.email => u1 = u2
       /\ (Responds("signup") /\ dbUp /\ \E u \in users' : u.email = out'.email)
            => \/ out'.resp.status = 200 /\ ~Registered(out'.email)
               \/ out'.resp.status = 400]_vars

(***************************************************************************)
(* C5: a successful POST /auth/login inserts exactly one new row into the  *)
(* sessions table; its id differs from every id already stored, its        *)
(* user_id and email are those of the authenticated credential and its     *)
(* expires_at is 24 hours after the time of the login; the response sets   *)
(* the cookie session_id = that id with HttpOnly, Secure, SameSite=Lax,    *)
(* Path=/ and Max-Age=86400, the 24 hours in seconds.                      *)
(***************************************************************************)
C5_LoginCreatesSession ==
    [][\A q \in BagToSet(req) :
          (q.kind = "login" /\ Returns(q) /\ out'.resp.status = 200)
          => \E row \in sessions', u \in SelectUser(q.email, PasswordHash(q.password)) :
               /\ sessions' = sessions \cup {row}
               /\ \A s \in sessions : s.id # row.id
               /\ row.user_id = u.id /\ row.email = u.email
               /\ row.expires_at = now + 24
               /\ out'.resp.set_cookie =
                     [key |-> "session_id", value |-> row.id, httponly |-> TRUE,
                      secure |-> TRUE, samesite |-> "lax", path |-> "/",
                      max_age |-> 24 * 60 * 60]
               /\ out'.resp.set_cookie.max_age = 86400]_vars

\* a login has succeeded while another session was already stored
C5_Witness ==
    /\ out.kind = "login" /\ out.resp.status = 200
    /\ Cardinality(sessions) = 2
    /\ \E s \in sessions : s.id = out.resp.set_cookie.value

(***************************************************************************)
(* C6: once POST /auth/logout carrying session_id = s has answered with    *)
(* success, every later GET /auth/verify with s fails, whatever the store  *)
(* operations of that logout did.  lastLogout = s says that a logout of s  *)
(* was answered with success and that no login has created s since.  The   *)
(* code answers success also when the connect, the SELECT or the DELETE    *)
(* of the logout failed, and the row stays.  Stated for the verify         *)
(* requests that arrive after the logout was answered.                     *)
(***************************************************************************)
C6_LogoutRevokes ==
    [][\A q \in BagToSet(req) :
          (q.kind = "verify" /\ Returns(q) /\ q.follows /\ q.cookie = lastLogout)
          => out'.resp.status # 200]_vars

(***************************************************************************)
(* C7: POST /auth/logout is idempotent: with no cookie, with an id absent  *)
(* from the store, or twice in succession with the same id, it gives the   *)
(* same success response and the same cookie-clearing Set-Cookie, never an *)
(* error, and the second call leaves the store as the first left it.  The  *)
(* response part holds; when the store failed during the first call the    *)
(* second call deletes the row the first one left (see C6).  The second    *)
(* call is a logout that arrives after the first was answered.             *)
(***************************************************************************)
C7_LogoutIdempotent ==
    [][Responds("logout")
          => /\ out'.resp.status = 200 /\ out'.resp.body = "success"
             /\ out'.resp.set_cookie.key = "session_id"
             /\ out'.resp.set_cookie.value = NoSid
             /\ out'.resp.set_cookie.max_age = 0
             /\ out'.resp.set_cookie.path = "/"
             /\ \A q \in BagToSet(req) :
                   (Returns(q) /\ q.follows /\ q.cookie = lastLogout)
                   => sessions' = sessions /\ users' = users]_vars

(***************************************************************************)
(* C8: GET /auth/verify is side-effect-free: whatever it answers (success, *)
(* no cookie, invalid or expired session, store error), every step of its  *)
(* handler leaves the sessions and users tables unchanged, so no           *)
(* expires_at is ever extended by a verify.                                *)
(***************************************************************************)
C8_VerifyChangesNothing ==
    [][(Responds("verify") \/ Enters("verify"))
          => users' = users /\ sessions' = sessions]_vars

\* a verify has succeeded on a session past half of its lifetime
C8_Witness ==
    /\ out.kind = "verify" /\ out.resp.status = 200
    /\ \E s \in sessions : s.id = out.cookie /\ s.created_at < now

(***************************************************************************)
(* Claims about the gateway.                                               *)
(***************************************************************************)
\* url ends with the pieces of suffix
EndsWith(url, suffix) ==
    /\ Len(url) >= Len(suffix)
    /\ SubSeq(url, Len(url) - Len(suffix) + 1, Len(url)) = suffix

\* url was built on a non-empty base without a trailing slash: it does not
\* start with the separator and the separator is never doubled
OnCleanBase(url) ==
    /\ url # <<>> /\ url[1] # "/"
    /\ \A i \in 1..(Len(url) - 1) : ~(url[i] = "/" /\ url[i + 1] = "/")

\* C9: a request whose {service} segment is outside the enumeration is
\* rejected (422) with no outbound request made for it, so it is never among
\* the requests waiting for a backend, whichever backend.
C9_UnknownTokenNeverSent ==
    /\ \A q \in BagToSet(gwReq) : q.token \in SpecServices
    /\ gwOut.token \in Tokens \ SpecServices =>
          gwOut.calls = <<>> /\ gwOut.resp.status = 422

C9_Witness ==
    /\ gwOut.token = "billing" /\ gwOut.resp.status = 422
    /\ gwReq # EmptyBag

\* C10: a request for any of auth, user, cbam, chatbot, lca, report is
\* accepted and sent, under every environment, to a URL built on a non-empty
\* base without trailing slash; POST /api/v1/user/health is sent to /health
\* of a backend.
C10_EveryServiceResolves ==
    /\ \A q \in BagToSet(gwReq) : \A i \in 1..Len(q.calls) : OnCleanBase(q.calls[i])
    /\ gwOut.token \in SpecServices =>
          /\ gwOut.resp.status # 422
          /\ gwOut.calls # <<>>
          /\ \A i \in 1..Len(gwOut.calls) :
                OnCleanBase(gwOut.calls[i]) /\ EndsWith(gwOut.calls[i], <<"/">> \o gwOut.path)

\* C11: whatever the target service, a proxied POST whose outbound call
\* timed out is answered 504 and one whose outbound call could not connect is
\* answered 503.
C11_TimeoutAndConnectStatuses ==
    gwOut.site = "proxy" =>
      /\ gwOut.outcome = "TimeoutException" => gwOut.resp.status = 504
      /\ gwOut.outcome = "ConnectError" => gwOut.resp.status = 503

\* a request singled out by the mark is waiting for its backend
MarkedWaiting == \E q \in BagToSet(gwReq) : q.mark

C13_AtMostOneCall ==
    /\ \A q \in BagToSet(gwReq) : Len(q.calls) = 1
    /\ Len(gwOut.calls) <= 1
    /\ gwOut.outcome \in Failures => Len(gwOut.calls) = 1

C13_Witness ==
    /\ gwOut.site = "proxy" /\ gwOut.token = "auth"
    /\ gwOut.outcome = "TimeoutException" /\ gwOut.resp.status = 504
    /\ Len(gwOut.calls) = 1

\* the header occurs exactly once
HasOne(headers, name) == Len(Values(headers, name)) = 1

\* status 200 with the five headers of a preflight answer
PreflightOk(resp) ==
    /\ resp.status = 200
    /\ \A name \in {"access-control-allow-origin", "access-control-allow-credentials",
                     "access-control-allow-methods", "access-control-allow-headers",
                     "access-control-max-age"} : HasOne(resp.headers, name)

CorsHandlers ==
    {"root_options", "proxy_options", "auth_proxy_options", "proxy_post",
     "forward_request_to_auth_service"}

\* the request carried an Origin the gateway does not allow
Disallowed(a) == a.origin # NoOrigin /\ ~IsAllowed(a.origin)

\* C15: no response a handler produces carries an Access-Control-Allow-Origin
\* that is "*", or that is the Origin of the request when that Origin is
\* neither in ALLOWED_ORIGINS nor matches ALLOW_ORIGIN_REGEX
C15_NoDisallowedOriginEchoed ==
    gwOut.by \in CorsHandlers =>
      LET acao == Values(gwOut.resp.headers, "access-control-allow-origin") IN
      \A i \in DOMAIN acao :
          /\ acao[i] # <<"*">>
          /\ Disallowed(gwOut) => acao[i] # gwOut.origin

\* the answer was built at one of the four places that decide on an Origin
DecisionSite(a) ==
    \/ a.by \in {"proxy_options", "auth_proxy_options"}
    \/ a.by = "forward_request_to_auth_service" /\ a.outcome = "response"
    \/ a.by = "proxy_post" /\ ParseServiceType(a.token) = "auth" /\ a.outcome = "response"

\* the Origin of the request is answered back in Access-Control-Allow-Origin
Echoed(a) ==
    \E i \in DOMAIN a.resp.headers :
        a.resp.headers[i] = <<"access-control-allow-origin", a.origin>>

\* C16: at each of the four decision sites an Origin is echoed exactly when
\* it is in ALLOWED_ORIGINS or matches ALLOW_ORIGIN_REGEX, so that the
\* sites agree on every origin
C16_SameDecisionEverywhere ==
    (DecisionSite(gwOut) /\ gwOut.origin # NoOrigin) =>
        (Echoed(gwOut) <=> IsAllowed(gwOut.origin))

\* C17: the response proxy_post relays carries the Set-Cookie headers of the
\* backend response: as many, with the same values, in the same order
C17_SetCookieRelayedUnchanged ==
    (gwOut.by = "proxy_post" /\ gwOut.outcome = "response") =>
        Values(gwOut.resp.headers, "set-cookie") = Values(gwOut.backend.headers, "set-cookie")

\* a backend response relayed by the auth branch of proxy_post or by
\* forward_request_to_auth_service
RelayedAuth(a) ==
    /\ a.outcome = "response"
    /\ \/ a.by = "forward_request_to_auth_service"
       \/ a.by = "proxy_post" /\ ParseServiceType(a.token) = "auth"

\* C18: when the backend response carries Access-Control-Allow-Origin, the
\* response the client receives has exactly one Access-Control-Allow-Origin
\* and one Access-Control-Allow-Credentials, neither with the backend's value
C18_BackendCorsOverwritten ==
    (RelayedAuth(gwOut)
       /\ Values(gwOut.backend.headers, "access-control-allow-origin") # <<>>) =>
        LET theirs(name) == Values(gwOut.backend.headers, name)
            ours(name) == Values(Delivered(gwOut).headers, name)
        IN \A name \in {"access-control-allow-origin", "access-control-allow-credentials"} :
              /\ Len(ours(name)) = 1
              /\ \A i \in DOMAIN theirs(name) : ours(name)[1] # theirs(name)[i]

\* the response the same handler builds for the same request when the
\* backend answers 200 without headers
SuccessFor(a) ==
    Relay([site |-> a.site, service |-> ParseServiceType(a.token), origin |-> a.origin],
          [kind |-> "response", resp |-> [status |-> 200, body |-> "json", headers |-> <<>>]])

\* C19: an error response proxy_post or forward_request_to_auth_service
\* builds after its outbound call failed carries the
\* Access-Control-Allow-Origin and Access-Control-Allow-Credentials headers
\* that its success response for the same Origin carries
C19_ErrorsCarryCors ==
    (gwOut.by \in {"proxy_post", "forward_request_to_auth_service"}
       /\ gwOut.outcome \in Failures) =>
        \A name \in {"access-control-allow-origin", "access-control-allow-credentials"} :
            Values(gwOut.resp.headers, name) = Values(SuccessFor(gwOut).headers, name)

\* C20: a login that succeeds, whatever other logins of the same user are
\* in flight or have succeeded, inserts one row of its own whose id no
\* stored session has; the sessions stored before, those of the same user
\* among them, stay as they were; the new row is ACTIVE and its id is the
\* value of the cookie of this response.  So the ids in the table identify
\* the rows.
C20_ConcurrentLoginsDistinct ==
    /\ [](\A s, t \in sessions : s.id = t.id => s = t)
    /\ [][\A q \in BagToSet(req) :
            (q.kind = "login" /\ Returns(q) /\ out'.resp.status = 200)
            => \E row \in sessions' \ sessions :
                 /\ sessions' \ sessions = {row}
                 /\ sessions \subseteq sessions'
                 /\ \A t \in sessions : t.email = q.email => t.id # row.id
                 /\ row.user_id = q.user.id /\ row.expires_at > now'
                 /\ out'.resp.set_cookie.value = row.id
                 /\ out'.resp.data.session_id = row.id]_vars

\* two logins of one user were in flight together and both succeeded: two
\* ACTIVE rows of that user, the later answer carrying the id of one
C20_Witness ==
    /\ out.kind = "login" /\ out.resp.status = 200 /\ out.peer
    /\ req = EmptyBag
    /\ \E s, t \in sessions :
          /\ s.id # t.id /\ s.user_id = t.user_id
          /\ s.email = out.email /\ t.email = out.email
          /\ s.expires_at > now /\ t.expires_at > now
          /\ out.resp.set_cookie.value = s.id

C22_RowsNeverMutated ==
    [][/\ \A s \in sessions, t \in sessions' : s.id = t.id => s = t
       /\ \/ sessions' = sessions
          \/ \E q \in BagToSet(req), row \in sessions' :
                /\ q.kind = "login" /\ Returns(q)
                /\ row.id \notin SessionIdsStored
                /\ sessions' = sessions \cup {row}
          \/ \E q \in BagToSet(req) :
                /\ q.kind = "logout" /\ Returns(q)
                /\ sessions' = {s \in sessions : s.id # q.cookie}]_vars

\* a logout has removed its row and another session is stored as it was
\* created
C22_Witness ==
    /\ out.kind = "logout" /\ out.cookie # NoSid /\ ~out.conn
    /\ out.cookie \notin SessionIdsStored
    /\ ops = 3 /\ req = EmptyBag
    /\ \E s \in sessions : s.expires_at = s.created_at + SESSION_TTL_HOURS /\ s.created_at < now

\* what login answers when the email it is given belongs to no user
UnknownEmailResponse == ErrorResp(OuterExcept(DbExcept(HTTPException(401))))

\* C23: a login for which the store finds no row is answered alike whether
\* the email is unknown or the email is registered and the password is
\* wrong: status, body and cookie are those of the answer to an unknown
\* email
C23_FailedLoginsAlike ==
    [][\A q \in BagToSet(req) :
          (q.kind = "login" /\ q.pc = "select" /\ Returns(q) /\ dbUp
             /\ SelectUser(q.email, PasswordHash(q.password)) = {})
          => /\ out'.resp = UnknownEmailResponse
             /\ out'.conn = FALSE]_vars

\* a login with a registered email and a wrong password has failed: it
\* passed the connect (peer), closed its connection and got no session
C23_Witness ==
    /\ out.kind = "login" /\ out.peer /\ ~out.conn
    /\ out.resp.status # 200 /\ out.resp = UnknownEmailResponse
    /\ Registered(out.email)

\* C24: the response the gateway relays has the status code and the body of
\* the backend response, whatever the status and also when the body is
\* empty
C24_StatusAndBodyRelayed ==
    (gwOut.method = "POST" /\ gwOut.outcome = "response") =>
        /\ gwOut.resp.status = gwOut.backend.status
        /\ gwOut.resp.body = gwOut.backend.body

\* C25: whatever became of init_database at startup, the service serves:
\* a handler that returns while the store is unreachable answers 500, and
\* once the store is reachable requests are answered normally: the signup
\* of an email no user has is answered 200
C25_ServesAfterFailedInit ==
    [][\A q \in BagToSet(req) :
          Returns(q) =>
            IF ~dbUp THEN out'.resp.status = 500
            ELSE (q.kind = "signup" /\ SelectByEmail(q.email) = {})
                    => out'.resp.status = 200]_vars

\* the header lines of a request as (lower-case name, value) pairs, names
\* being case-insensitive
HeaderLines(lines) == {<<Lower(lines[i][1]), lines[i][2]>> : i \in DOMAIN lines}

\* C26: on every forwarding path the headers of the outbound call are
\* exactly the header lines of the inbound request without Host and
\* Content-Length in whatever case, every value unchanged
C26_HeadersForwarded ==
    \A q \in BagToSet(gwReq) :
        HeaderLines(q.sent.headers)
            = {l \in HeaderLines(q.inbound.headers) : l[1] \notin {"host", "content-length"}}

\* C27: no outbound call carries a raw body and multipart files at once;
\* when the inbound request brings an uploaded file the call sends the
\* multipart form and no raw body, otherwise it sends the raw body as it
\* came, an empty body as an empty body; a request with a file is not
\* answered without its outbound call
C27_BodyOrFiles ==
    /\ gwOut.inbound.file => gwOut.calls # <<>>
    /\ \A q \in BagToSet(gwReq) :
          /\ ~(q.sent.content # "None" /\ q.sent.files # "None")
          /\ IF q.inbound.file
               THEN q.sent.files # "None" /\ q.sent.content = "None"
               ELSE q.sent.files = "None" /\ q.sent.content = q.inbound.body

\* the members of a sequence
Members(seq) == {seq[i] : i \in DOMAIN seq}

\* C28: on every forwarding path every cookie the caller sent reaches the
\* backend with the name and the value it was sent with
C28_CookiesForwarded ==
    \A q \in BagToSet(gwReq) :
        \A v \in Members(Values(AsgiHeaders(q.inbound.headers), "cookie")) :
            Members(cookie_parser(v)) \subseteq Members(CookiesReceived(q.sent))

\* an outbound call is under way for a request that came with two cookies
C28_Witness ==
    \E q \in BagToSet(gwReq) :
        /\ Len(CookiesReceived(q.sent)) = 2
        /\ \E i \in DOMAIN q.inbound.headers : Lower(q.inbound.headers[i][1]) = "cookie"

\* the URL configured for a backend: the variable's value when it is set,
\* else the default, without trailing slashes
ConfiguredBase(service) ==
    RStrip(IF env[EnvName(service)] = Unset THEN DefaultUrl(service)
           ELSE env[EnvName(service)])

\* C29: under every environment, an AUTH_SERVICE_URL that ends in a slash
\* included, every outbound URL is the configured base without trailing
\* slash followed by "/auth/" and the path for the auth backend, at each
\* call site that forwards to it, and by "/" and the path for the others
C29_OutboundUrl ==
    \A q \in BagToSet(gwReq) : \A i \in DOMAIN q.calls :
        q.calls[i] = ConfiguredBase(q.service)
                        \o (IF q.service = "auth" THEN <<"/", "auth", "/">> ELSE <<"/">>)
                        \o q.path

\* C30: every handler that opened a connection to the store has closed it
\* by the time it responds, on the error paths as on the others
C30_ConnectionsClosed == ~out.conn

\* C31: GET /auth/verify answers 200 for a session id only when the row of
\* that id is stored and the clock is before its expires_at, and the user
\* id it returns is the row's; a row comes to be stored only by a login
\* answering 200 with that id, for the user that login found, with the
\* expires_at it keeps, and ceases to be stored only by a logout of its id
C31_VerifyOnlyLiveSessions ==
    [][/\ (Responds("verify") /\ out'.resp.status = 200) =>
             \E s \in sessions :
                 /\ s.id = out'.cookie /\ now < s.expires_at
                 /\ out'.resp.data.user_id = s.user_id
       /\ \A s \in sessions' \ sessions :
             /\ Responds("login") /\ out'.resp.status = 200
             /\ out'.resp.data.session_id = s.id
             /\ out'.resp.data.user_id = s.user_id
             /\ \E u \in users : u.id = s.user_id /\ u.email = out'.email
             /\ s.expires_at = now + SESSION_TTL_HOURS
       /\ \A s \in sessions \ sessions' :
             Responds("logout") /\ out'.cookie = s.id]_vars

\* a verify was answered 200 for a stored, unexpired session while a
\* second session is stored
C31_Witness ==
    /\ out.kind = "verify" /\ out.resp.status = 200
    /\ Cardinality(sessions) = 2
    /\ \E s \in sessions :
          s.id = out.cookie /\ now < s.expires_at /\ out.resp.data.user_id = s.user_id

\* this step is a step of the handler of a request of kind k: the request
\* is answered on arrival, enters, moves on or returns
HandlerStep(k) ==
    \/ ops' = ops + 1 /\ req' = req /\ out'.kind = k
    \/ \E q \in BagToSet(req) \cup BagToSet(req') :
          q.kind = k /\ CopiesIn(q, req') # CopiesIn(q, req)

\* the cookie of the logout this step belongs to
LogoutCookies ==
    {q.cookie : q \in {p \in BagToSet(req) : p.kind = "logout" /\ CopiesIn(p, req') < CopiesIn(p, req)}}

\* C32: a login changes nothing but the one session row it inserts: users
\* and every session stored before are unchanged, and the sessions that
\* were ACTIVE stay ACTIVE; a logout removes only the row whose id is the
\* cookie it was sent and leaves every other session and users unchanged
C32_LoginLogoutFrame ==
    [][/\ HandlerStep("login") =>
             /\ users' = users
             /\ sessions \subseteq sessions'
             /\ Cardinality(sessions' \ sessions) <= 1
             /\ \A s \in sessions :
                   s.expires_at > now => s \in sessions' /\ s.expires_at > now'
       /\ HandlerStep("logout") =>
             /\ users' = users
             /\ sessions' \subseteq sessions
             /\ \A s \in sessions \ sessions' : s.id \in LogoutCookies]_vars

\* a logout has run its DELETE for its cookie and returned; no row has that
\* id, and the session an earlier login stored under the other id is still
\* stored and ACTIVE
C32_Witness ==
    /\ out.kind = "logout" /\ ~out.conn /\ out.cookie \in SessionIds
    /\ sessions # {} /\ users # {}
    /\ \A s \in sessions : s.id # out.cookie /\ s.expires_at > now
    /\ ops = MaxOps /\ req = EmptyBag

\* C33: every row of sessions has the user_id of a row of users, and its
\* email is that user's email
C33_SessionsReferToUsers ==
    \A s \in sessions : \E u \in users : u.id = s.user_id /\ u.email = s.email

\* a user who signed up after the first has logged in: the session is
\* stored under the second user's id and email
C33_Witness ==
    /\ Cardinality(users) = 2
    /\ \E s \in sessions, u \in users :
          u.id = 2 /\ s.user_id = u.id /\ s.email = u.email /\ u.email = "b@x"

\* the request that passed the middleware carried a valid Bearer token: one
\* that decodes under the key, is not expired and names a user
ValidBearer ==
    LET vs == Values(AsgiHeaders(mwOut.scope.headers), "authorization") IN
    /\ vs # <<>> /\ Len(vs[1]) = 2 /\ vs[1][1] = "Bearer"
    /\ jwt_decode(vs[1][2]).raises = ""
    /\ Truthy(jwt_decode(vs[1][2]).user_id)

\* C34: for a request on a non-exempt path, the app sees an x-user-id
\* header only when the request carried a valid Bearer token, and then one
\* header whose value is the token's user_id; an x-user-id the client sent
\* without a valid token does not reach the app, and the other headers of
\* the request reach it as they came
C34_UserIdFromTokenOnly ==
    (mwOut.scope.type = "http" /\ ~_is_exempt_path(mwOut.scope.path)) =>
        LET inbound == AsgiHeaders(mwOut.scope.headers)
            vs == Values(inbound, "authorization")
        IN  /\ Values(mwOut.headers, "x-user-id")
                  = IF ValidBearer THEN <<<<jwt_decode(vs[1][2]).user_id.str>>>> ELSE <<>>
            /\ {l \in Members(mwOut.headers) : l[1] # "x-user-id"}
                  = {l \in Members(inbound) : l[1] # "x-user-id"}

====
